---------------------------- MODULE Spec2Model ----------------------------
(***************************************************************************)
(* Model of etl.py: a batch job in two stages.  process_song_data reads    *)
(* the song records and writes the songs/ and artists/ tables;             *)
(* process_log_data reads the activity log, keeps the "NextSong" events,   *)
(* writes users/ and time/, reads songs/ and artists/ back, joins them to  *)
(* the events and writes songplays/.                                       *)
(*                                                                         *)
(* A dataframe is a sequence of rows (records); its order carries no       *)
(* meaning, so tables are compared as bags.  A nullable column holds <<>>  *)
(* for SQL NULL and <<v>> for the value v.  An epoch-millisecond value ts  *)
(* is the record [sec |-> ts \div 1000, ms |-> ts % 1000], because the     *)
(* values of the log (about 1.5 * 10^12) do not fit TLC's integers.          *)
(* A string the code takes apart (a userId it casts, a path it            *)
(* concatenates) is a sequence of its pieces.                              *)
(***************************************************************************)
EXTENDS Integers, Sequences, FiniteSets, Bags, TLC

(***************************************************************************)
(* Generic dataframe helpers                                               *)
(***************************************************************************)
Null == <<>>
Some(v) == <<v>>
IsNull(x) == x = Null

\* SQL equality of two nullable values: NULL equals nothing.
SqlEq(a, b) == ~IsNull(a) /\ ~IsNull(b) /\ a = b

Range(s) == {s[i] : i \in 1..Len(s)}

\* The concatenation of a sequence of dataframes.
RECURSIVE Flatten(_)
Flatten(ss) == IF ss = <<>> THEN <<>> ELSE Head(ss) \o Flatten(Tail(ss))

\* DataFrame.distinct(): one row for every distinct row.
RECURSIVE Distinct(_)
Distinct(s) ==
    IF s = <<>> THEN <<>>
    ELSE LET r == Distinct(SubSeq(s, 1, Len(s) - 1))
             x == s[Len(s)]
         IN  IF x \in Range(r) THEN r ELSE Append(r, x)

\* The rows of a table as a bag.
SeqToBag(s) == [x \in Range(s) |-> Cardinality({i \in 1..Len(s) : s[i] = x})]

(***************************************************************************)
(* Calendar fields of a timestamp (proleptic Gregorian calendar)           *)
(***************************************************************************)
\* Days since 1970-01-01 of the civil date y-m-d.
DaysFromCivil(y, m, d) ==
    LET yy  == IF m <= 2 THEN y - 1 ELSE y
        era == yy \div 400
        yoe == yy - era * 400
        mp  == IF m > 2 THEN m - 3 ELSE m + 9
        doy == (153 * mp + 2) \div 5 + d - 1
        doe == yoe * 365 + yoe \div 4 - yoe \div 100 + doy
    IN  era * 146097 + doe - 719468

\* The civil date of day number z (days since 1970-01-01).
CivilFromDays(z0) ==
    LET z   == z0 + 719468
        era == z \div 146097
        doe == z - era * 146097
        yoe == (doe - doe \div 1460 + doe \div 36524 - doe \div 146096) \div 365
        doy == doe - (365 * yoe + yoe \div 4 - yoe \div 100)
        mp  == (5 * doy + 2) \div 153
        d   == doy - (153 * mp + 2) \div 5 + 1
        m   == IF mp < 10 THEN mp + 3 ELSE mp - 9
        y   == yoe + era * 400 + (IF m <= 2 THEN 1 ELSE 0)
    IN  [year |-> y, month |-> m, day |-> d]

\* Whether ISO year y has 53 weeks.
LongIsoYear(y) ==
    LET p(n) == (n + n \div 4 - n \div 100 + n \div 400) % 7
    IN  p(y) = 4 \/ p(y - 1) = 3

\* ISO-8601 week number of day number z.
IsoWeek(z) ==
    LET c       == CivilFromDays(z)
        ordinal == z - DaysFromCivil(c.year, 1, 1) + 1
        isoDow  == ((z + 3) % 7) + 1
        w       == (ordinal - isoDow + 10) \div 7
    IN  IF w < 1 THEN (IF LongIsoYear(c.year - 1) THEN 53 ELSE 52)
        ELSE IF w = 53 /\ ~LongIsoYear(c.year) THEN 1
        ELSE w

\* The wall-clock second count of timestamp t in a zone tz seconds east of UTC.
LocalSeconds(t, zone) == t.sec + zone
LocalDay(t, zone) == LocalSeconds(t, zone) \div 86400

Hour(t, zone) == (LocalSeconds(t, zone) % 86400) \div 3600
DayOfMonth(t, zone) == CivilFromDays(LocalDay(t, zone)).day
WeekOfYear(t, zone) == IsoWeek(LocalDay(t, zone))
Month(t, zone) == CivilFromDays(LocalDay(t, zone)).month
Year(t, zone) == CivilFromDays(LocalDay(t, zone)).year
\* 1 = Sunday ... 7 = Saturday
DayOfWeek(t, zone) == ((LocalDay(t, zone) + 4) % 7) + 1

\* get_timestamp: epoch milliseconds / 1000.0 as a timestamp of microsecond
\* resolution.
get_timestamp(ts) == [sec |-> ts.sec, us |-> ts.ms * 1000]

\* ts1 < ts2 on epoch milliseconds.
TsLess(a, b) == a.sec < b.sec \/ (a.sec = b.sec /\ a.ms < b.ms)


(***************************************************************************)
(* Column conversions                                                      *)
(***************************************************************************)
DigitVal == [c \in {"0", "1", "2", "3", "4", "5", "6", "7", "8", "9"} |->
               CASE c = "0" -> 0 [] c = "1" -> 1 [] c = "2" -> 2 [] c = "3" -> 3
                 [] c = "4" -> 4 [] c = "5" -> 5 [] c = "6" -> 6 [] c = "7" -> 7
                 [] c = "8" -> 8 [] c = "9" -> 9]

IsDigits(s) == \A i \in 1..Len(s) : s[i] \in DOMAIN DigitVal

RECURSIVE DigitsValue(_)
DigitsValue(s) ==
    IF s = <<>> THEN 0
    ELSE DigitsValue(SubSeq(s, 1, Len(s) - 1)) * 10 + DigitVal[s[Len(s)]]

RECURSIVE TrimLeft(_)
TrimLeft(s) == IF s # <<>> /\ Head(s) = " " THEN TrimLeft(Tail(s)) ELSE s

RECURSIVE TrimRight(_)
TrimRight(s) ==
    IF s # <<>> /\ s[Len(s)] = " " THEN TrimRight(SubSeq(s, 1, Len(s) - 1)) ELSE s

\* Column.cast(IntegerType()) of a string column: the string is trimmed, may
\* carry a sign, and a fraction after "." is dropped; any other string is NULL.
CastToInteger(s) ==
    LET t     == TrimRight(TrimLeft(s))
        neg   == t # <<>> /\ Head(t) = "-"
        body  == IF t # <<>> /\ Head(t) \in {"-", "+"} THEN Tail(t) ELSE t
        dots  == {i \in 1..Len(body) : body[i] = "."}
        cut   == IF dots = {} THEN Len(body) + 1
                 ELSE CHOOSE i \in dots : \A j \in dots : i <= j
        whole == SubSeq(body, 1, cut - 1)
        frac  == SubSeq(body, cut + 1, Len(body))
    IN  IF body = <<>> \/ ~IsDigits(whole) \/ ~IsDigits(frac) THEN Null
        ELSE Some(IF neg THEN 0 - DigitsValue(whole) ELSE DigitsValue(whole))

(***************************************************************************)
(* Storage: the tables that exist, by location                             *)
(***************************************************************************)
\* main's output_data, "s3a://veectro-udacity-dend4/", as bucket and separator.
output_data == <<"s3a://veectro-udacity-dend4", "/">>

\* The location the storage layer resolves a path string to: a doubled
\* separator is one separator and a trailing separator is dropped.
RECURSIVE CollapseSlashes(_)
CollapseSlashes(p) ==
    IF Len(p) < 2 THEN p
    ELSE IF p[1] = "/" /\ p[2] = "/"
         THEN <<"/">> \o CollapseSlashes(SubSeq(p, 3, Len(p)))
         ELSE <<p[1]>> \o CollapseSlashes(Tail(p))

Qualify(p) ==
    LET q == CollapseSlashes(p)
    IN  IF Len(q) > 1 /\ q[Len(q)] = "/" THEN SubSeq(q, 1, Len(q) - 1) ELSE q

\* The path strings the code builds.
songs_out == output_data \o <<"songs", "/">>
artists_out == output_data \o <<"artists", "/">>
users_out == output_data \o <<"users", "/">>
time_out == output_data \o <<"time", "/">>
songplays_out == output_data \o <<"songplays", "/">>
songs_in == output_data \o <<"/", "songs">>
artists_in == output_data \o <<"/", "artists">>

Exists(st, p) == Qualify(p) \in DOMAIN st
Load(st, p) == st[Qualify(p)]

\* The variant mode('append'): the rows are added to what is there.
AppendMode(old, rows) == old \o rows

\* DataFrameWriter.mode('overwrite'): what the location holds after the write
\* of rows, old being what it held (<<>> when it did not exist).
WriteMode(old, rows) == rows

Save(st, p, rows) ==
    LET q == Qualify(p)
    IN  [x \in DOMAIN st \cup {q} |->
           IF x = q THEN WriteMode(IF q \in DOMAIN st THEN st[q] ELSE <<>>, rows)
           ELSE st[x]]

(***************************************************************************)
(* process_song_data: the two projections of the song records              *)
(***************************************************************************)
SongRow(r) ==
    [song_id |-> r.song_id, title |-> r.title, artist_id |-> r.artist_id,
     year |-> r.year, duration |-> r.duration]

songs_table(sdf) == [i \in 1..Len(sdf) |-> SongRow(sdf[i])]

ArtistRow(r) ==
    [artist_id |-> r.artist_id, name |-> r.artist_name,
     location |-> r.artist_location, latitude |-> r.artist_latitude,
     longitude |-> r.artist_longitude]

artists_table(sdf) == [i \in 1..Len(sdf) |-> ArtistRow(sdf[i])]

(***************************************************************************)
(* process_log_data: filter, users, time                                   *)
(***************************************************************************)
IsNextSong(l) == l.page = "NextSong"

\* The variant without the filter.
KeepAll(rows) == rows

\* df.filter(F.col('page') == 'NextSong')
FilterPage(rows) == SelectSeq(rows, IsNextSong)

\* max(ts) over Window.partitionBy('userID'), then the rows whose ts is that
\* maximum, then drop/rename.
IsLatestOfUser(l, rows) ==
    \A o \in Range(rows) : o.userId = l.userId => ~TsLess(l.ts, o.ts)

UserRow(l) ==
    [user_id |-> l.userId, first_name |-> l.firstName,
     last_name |-> l.lastName, gender |-> l.gender, level |-> l.level]

users_table(rows) ==
    LET Latest(l) == IsLatestOfUser(l, rows)
        kept == SelectSeq(rows, Latest)
    IN  [i \in 1..Len(kept) |-> UserRow(kept[i])]

\* df.withColumn('start_time', get_timestamp(F.col('ts')))
WithStartTime(rows) ==
    LET Add(l) == [x \in DOMAIN l \cup {"start_time"} |->
                     IF x = "start_time" THEN get_timestamp(l.ts) ELSE l[x]]
    IN  [i \in 1..Len(rows) |-> Add(rows[i])]

TimeRow(l, zone) ==
    [start_time |-> l.start_time, hour |-> Hour(l.start_time, zone),
     day |-> DayOfMonth(l.start_time, zone),
     week |-> WeekOfYear(l.start_time, zone),
     month |-> Month(l.start_time, zone), year |-> Year(l.start_time, zone),
     weekday |-> DayOfWeek(l.start_time, zone)]

\* The variant without distinct().
KeepDuplicates(rows) == rows

\* .distinct() of the time table
TimeDistinct(rows) == Distinct(rows)

time_table(rows, zone) ==
    LET Row(l) == TimeRow(l, zone)
    IN  TimeDistinct([i \in 1..Len(rows) |-> Row(rows[i])])

(***************************************************************************)
(* process_log_data: the catalog and the songplays                         *)
(***************************************************************************)
\* songs_df.join(artists_df, 'artist_id', 'full').select(song_id, title,
\* artist_id, name, year): every pair on equal artist_id, then the songs and
\* the artists without a partner, padded with NULL.
songs_details(songs, artists) ==
    LET Pair(sg, a) ==
            [song_id |-> Some(sg.song_id), title |-> Some(sg.title),
             artist_id |-> Some(sg.artist_id), name |-> Some(a.name),
             year |-> Some(sg.year)]
        OfSong(sg) ==
            LET m == SelectSeq(artists, LAMBDA a : a.artist_id = sg.artist_id)
            IN  IF m = <<>>
                THEN <<[song_id |-> Some(sg.song_id), title |-> Some(sg.title),
                        artist_id |-> Some(sg.artist_id), name |-> Null,
                        year |-> Some(sg.year)]>>
                ELSE [i \in 1..Len(m) |-> Pair(sg, m[i])]
        Lonely(a) == \A sg \in Range(songs) : sg.artist_id # a.artist_id
        OfArtist(a) ==
            [song_id |-> Null, title |-> Null, artist_id |-> Some(a.artist_id),
             name |-> Some(a.name), year |-> Null]
        lonely == SelectSeq(artists, Lonely)
    IN  Flatten([i \in 1..Len(songs) |-> OfSong(songs[i])])
          \o [i \in 1..Len(lonely) |-> OfArtist(lonely[i])]

\* The variant that joins on the title alone.
TitleOnly(l, c) == SqlEq(l.song, c.title)

\* (df.song == songs_details.title) & (df.artist == songs_details.name)
JoinCondition(l, c) == SqlEq(l.song, c.title) /\ SqlEq(l.artist, c.name)

\* df.join(songs_details, <condition>, 'left'): the event's columns and the
\* catalog's (year is the catalog's release year here), one row per matching
\* catalog row, and one row padded with NULL for an event without a match.
LeftJoin(rows, details) ==
    LET With(l, c) ==
            [x \in DOMAIN l \cup {"song_id", "title", "artist_id", "name", "year"} |->
               IF x \in DOMAIN c THEN c[x] ELSE l[x]]
        NoMatch == [song_id |-> Null, title |-> Null, artist_id |-> Null,
                    name |-> Null, year |-> Null]
        OfEvent(l) ==
            LET m == SelectSeq(details, LAMBDA c : JoinCondition(l, c))
            IN  IF m = <<>> THEN <<With(l, NoMatch)>>
                ELSE [i \in 1..Len(m) |-> With(l, m[i])]
    IN  Flatten([i \in 1..Len(rows) |-> OfEvent(rows[i])])

\* The variant that keeps the year column of the join (the release year).
CatalogYear(j, zone) == IF IsNull(j.year) THEN 0 ELSE j.year[1]

\* .withColumn('year', F.year('start_time')) over the joined row: it replaces
\* the year column the join brought from the catalog.
FactYear(j, zone) == Year(get_timestamp(j.ts), zone)

\* monotonically_increasing_id() of the i-th row when the rows lie in n
\* partitions: the partition index in the upper 31 bits, the row's position
\* in its partition in the lower 33 bits.
IncreasingId(i, n) == [partition |-> (i - 1) % n, offset |-> (i - 1) \div n]

songplays_table(rows, details, zone, n) ==
    LET j == LeftJoin(rows, details)
    IN  [i \in 1..Len(j) |->
           [start_time |-> get_timestamp(j[i].ts),
            user_id |-> CastToInteger(j[i].userId),
            level |-> j[i].level,
            song_id |-> j[i].song_id,
            artist_id |-> j[i].artist_id,
            sessionId |-> j[i].sessionId,
            location |-> j[i].location,
            year |-> FactYear(j[i], zone),
            month |-> Month(get_timestamp(j[i].ts), zone),
            user_agent |-> j[i].userAgent,
            songplay_id |-> IncreasingId(i, n)]]

(***************************************************************************)
(* Inputs                                                                  *)
(***************************************************************************)
MaxSongs == 3
MaxLogs == 3
MaxRuns == 2
MaxPartitions == 2

Song(id, title, artist, year, name) ==
    [song_id |-> id, title |-> title, artist_id |-> artist, year |-> year,
     duration |-> 200, artist_name |-> name, artist_location |-> Null,
     artist_latitude |-> Null, artist_longitude |-> Null]

\* The song records an input is drawn from: an artist with two songs, two
\* songs of one title and artist name, an artist whose name differs between
\* two of its records.
SongPool ==
    << Song("SOXXX", "Intro", "ARYYY", 2009, "The xx"),
       Song("SOZZZ", "Stars", "ARYYY", 2009, "The xx"),
       Song("SOWWW", "Intro", "ARYYY", 2012, "The xx"),
       Song("SOQQQ", "Fire", "ARVVV", 2000, "Vega"),
       Song("SOKKK", "Rain", "ARVVV", 2001, "Vega feat. K") >>

Event(user, first, level, sec, page, song, artist, session) ==
    [userId |-> user, firstName |-> first, lastName |-> "Koch", gender |-> "F",
     level |-> level, ts |-> [sec |-> sec, ms |-> 796], page |-> page,
     song |-> song, artist |-> artist, sessionId |-> session,
     location |-> "Boston-MA", userAgent |-> "Mozilla/5.0"]

\* The log records an input is drawn from: the example event
\* (ts = 1542241826796), a second event of the same user at the same ts, a
\* third one second later, events of other pages, an event at the turn of
\* the year.
LogPool ==
    << Event(<<"1", "0">>, "Lily", "paid", 1542241826, "NextSong",
             Some("Intro"), Some("The xx"), 5),
       Event(<<"1", "0">>, "Lily", "free", 1542241826, "NextSong",
             Some("Stars"), Some("The xx"), 6),
       Event(<<"1", "0">>, "Lily", "paid", 1542241827, "NextSong",
             Some("Fire"), Some("vega"), 7),
       Event(<<"8">>, "Kaylee", "free", 1543000000, "Home", Null, Null, 8),
       Event(<<"9">>, "Ava", "free", 1546300800, "NextSong",
             Some("Rain"), Some("Vega"), 9),
       Event(<<"1", "0">>, "Lilian", "free", 1546300900, "Logout",
             Null, Null, 10) >>

RECURSIVE Pick(_, _, _)
Pick(pool, S, i) ==
    IF i > Len(pool) THEN <<>>
    ELSE (IF i \in S THEN <<pool[i]>> ELSE <<>>) \o Pick(pool, S, i + 1)

Inputs(pool, max) ==
    {Pick(pool, S, 1) : S \in {T \in SUBSET (1..Len(pool)) : Cardinality(T) <= max}}

\* The session time zones, in seconds east of UTC.
Zones == {0, 0 - 28800}

\* What the output locations may hold before the first run: nothing, or the
\* tables an earlier run left there from other input.
NoStore == [p \in {} |-> <<>>]

StaleStore ==
    LET old == [sec |-> 1500000000, us |-> 0]
    IN  (Qualify(songs_out) :>
           <<[song_id |-> "SOOLD", title |-> "Old", artist_id |-> "AROLD",
              year |-> 1999, duration |-> 100]>>)
        @@ (Qualify(artists_out) :>
           <<[artist_id |-> "AROLD", name |-> "Oldies", location |-> Null,
              latitude |-> Null, longitude |-> Null]>>)
        @@ (Qualify(users_out) :>
           <<[user_id |-> <<"7">>, first_name |-> "Old", last_name |-> "Koch",
              gender |-> "M", level |-> "free"]>>)
        @@ (Qualify(time_out) :> <<TimeRow([start_time |-> old], 0)>>)
        @@ (Qualify(songplays_out) :>
           <<[start_time |-> old, user_id |-> Some(7), level |-> "free",
              song_id |-> Some("SOOLD"), artist_id |-> Some("AROLD"),
              sessionId |-> 1, location |-> "Boston-MA", year |-> 2017,
              month |-> 7, user_agent |-> "Mozilla/5.0",
              songplay_id |-> IncreasingId(1, 1)]>>)

(***************************************************************************)
(* The run                                                                 *)
(***************************************************************************)
VARIABLES
    song_data,   \* the song records under input_data (fixed)
    log_data,    \* the log records under input_data (fixed)
    zone,        \* the session time zone (fixed)
    store,       \* the tables under output_data, by location
    status,      \* "idle", "running", "done" or "aborted"
    pc,          \* the position in main of the step to run next
    run,         \* the number of runs of main started
    prev,        \* store as it was when this run started
    written,     \* the locations this run has written
    sdf,         \* process_song_data's df
    df,          \* process_log_data's df
    songs_df,    \* process_log_data's songs_df
    artists_df   \* process_log_data's artists_df

vars == <<song_data, log_data, zone, store, status, pc, run, prev, written,
          sdf, df, songs_df, artists_df>>

inputs == <<song_data, log_data, zone>>
locals == <<sdf, df, songs_df, artists_df>>

process_song_data ==
    <<"read_song_data", "write_songs", "write_artists">>

process_log_data ==
    <<"read_log_data", "write_users", "write_time", "read_catalog",
      "write_songplays">>

\* The variant that calls the two stages in the other order.
LogStageFirst == process_log_data \o process_song_data

\* main: process_song_data, then process_log_data
main == process_song_data \o process_log_data

Init ==
    /\ song_data \in Inputs(SongPool, MaxSongs)
    /\ log_data \in Inputs(LogPool, MaxLogs)
    /\ zone \in Zones
    /\ store \in {NoStore, StaleStore}
    /\ status = "idle"
    /\ pc = 1
    /\ run = 0
    /\ prev = store
    /\ written = {}
    /\ sdf = <<>> /\ df = <<>> /\ songs_df = <<>> /\ artists_df = <<>>

At(step) == status = "running" /\ pc <= Len(main) /\ main[pc] = step

\* The step at pc returned: on to the next one, or main is over.
Advance ==
    /\ pc' = pc + 1
    /\ status' = IF pc = Len(main) THEN "done" ELSE "running"
    /\ UNCHANGED <<inputs, run, prev>>

\* The variant that restores the locations on failure.
RolledBack(st, before) == before

\* What the output locations hold once a step has raised: main catches
\* nothing and cleans nothing up, so whatever was written stays.
AfterFailure(st, before) == st

\* The step at pc raised, leaving the locations as st: the exception leaves
\* main and the process ends.
Abort(st) ==
    /\ status' = "aborted"
    /\ store' = AfterFailure(st, prev)
    /\ UNCHANGED <<inputs, pc, run, prev, written, locals>>

\* The path a step writes to (<<>> for a step that writes nothing).
Target(step) ==
    CASE step = "write_songs" -> songs_out
      [] step = "write_artists" -> artists_out
      [] step = "write_users" -> users_out
      [] step = "write_time" -> time_out
      [] step = "write_songplays" -> songplays_out
      [] OTHER -> <<>>

\* st without the table at path p.
Remove(st, p) == [x \in DOMAIN st \ {Qualify(p)} |-> st[x]]

\* main() is started, for the first time or again after a run that completed
\* (a run that raised has ended the process with the exception).
StartMain ==
    /\ status \in {"idle", "done"}
    /\ run < MaxRuns
    /\ status' = "running"
    /\ pc' = 1
    /\ run' = run + 1
    /\ prev' = store
    /\ written' = {}
    /\ sdf' = <<>> /\ df' = <<>> /\ songs_df' = <<>> /\ artists_df' = <<>>
    /\ UNCHANGED <<inputs, store>>

\* Any step may raise (the engine, the storage, the credentials); reading an
\* input that matches no record and reading a table that is not there do.
StepRaises ==
    /\ status = "running"
    /\ Abort(store)

\* A write in mode 'overwrite' that raises after it has deleted what was at
\* its location and before it has committed the new rows.
WriteRaises ==
    /\ status = "running"
    /\ Target(main[pc]) # <<>>
    /\ Abort(Remove(store, Target(main[pc])))

\* lines 27-30
ReadSongData ==
    /\ At("read_song_data")
    /\ song_data # <<>>
    /\ sdf' = song_data
    /\ Advance
    /\ UNCHANGED <<store, written, df, songs_df, artists_df>>

\* lines 33-36
WriteSongs ==
    /\ At("write_songs")
    /\ store' = Save(store, songs_out, songs_table(sdf))
    /\ written' = written \cup {Qualify(songs_out)}
    /\ Advance
    /\ UNCHANGED locals

\* lines 39-46, and the return of process_song_data
WriteArtists ==
    /\ At("write_artists")
    /\ store' = Save(store, artists_out, artists_table(sdf))
    /\ written' = written \cup {Qualify(artists_out)}
    /\ sdf' = <<>>
    /\ Advance
    /\ UNCHANGED <<df, songs_df, artists_df>>

\* lines 51-57
ReadLogData ==
    /\ At("read_log_data")
    /\ log_data # <<>>
    /\ df' = FilterPage(log_data)
    /\ Advance
    /\ UNCHANGED <<store, written, sdf, songs_df, artists_df>>

\* lines 60-75
WriteUsers ==
    /\ At("write_users")
    /\ store' = Save(store, users_out, users_table(df))
    /\ written' = written \cup {Qualify(users_out)}
    /\ Advance
    /\ UNCHANGED locals

\* lines 78-93
WriteTime ==
    /\ At("write_time")
    /\ df' = WithStartTime(df)
    /\ store' = Save(store, time_out, time_table(df', zone))
    /\ written' = written \cup {Qualify(time_out)}
    /\ Advance
    /\ UNCHANGED <<sdf, songs_df, artists_df>>

\* lines 96-97
ReadCatalog ==
    /\ At("read_catalog")
    /\ Exists(store, songs_in) /\ Exists(store, artists_in)
    /\ songs_df' = Load(store, songs_in)
    /\ artists_df' = Load(store, artists_in)
    /\ Advance
    /\ UNCHANGED <<store, written, sdf, df>>

\* lines 100-127, and the return of process_log_data; the engine decides the
\* number of partitions of the joined rows.
WriteSongplays ==
    /\ At("write_songplays")
    /\ \E n \in 1..MaxPartitions :
         store' = Save(store, songplays_out,
                       songplays_table(df, songs_details(songs_df, artists_df),
                                       zone, n))
    /\ written' = written \cup {Qualify(songplays_out)}
    /\ df' = <<>> /\ songs_df' = <<>> /\ artists_df' = <<>>
    /\ Advance
    /\ UNCHANGED sdf

Next ==
    \/ StartMain
    \/ ReadSongData
    \/ WriteSongs
    \/ WriteArtists
    \/ ReadLogData
    \/ WriteUsers
    \/ WriteTime
    \/ ReadCatalog
    \/ WriteSongplays
    \/ StepRaises
    \/ WriteRaises

Spec == Init /\ [][Next]_vars

(***************************************************************************)
(* Vocabulary of the properties, stated on the inputs and the output       *)
(* locations, not through the operators of the pipeline                    *)
(***************************************************************************)
\* The five output locations.
SongsAt == Qualify(songs_out)
ArtistsAt == Qualify(artists_out)
UsersAt == Qualify(users_out)
TimeAt == Qualify(time_out)
SongplaysAt == Qualify(songplays_out)

\* The table at location q (no rows when nothing is there).
Table(q) == IF q \in DOMAIN store THEN store[q] ELSE <<>>

\* This run has written location q.
Wrote(q) == q \in written

\* The log records of page "NextSong".
PlayEvents == {l \in Range(log_data) : l.page = "NextSong"}
NumPlayEvents == Cardinality({i \in 1..Len(log_data) : log_data[i].page = "NextSong"})

\* The start_time of a log record.
StartOf(l) == [sec |-> l.ts.sec, us |-> l.ts.ms * 1000]

\* The calendar tuple of a log record.
TupleOf(l) ==
    LET t == StartOf(l)
    IN  <<Hour(t, zone), DayOfMonth(t, zone), WeekOfYear(t, zone),
          Month(t, zone), Year(t, zone), DayOfWeek(t, zone)>>
TupleOfRow(r) == <<r.hour, r.day, r.week, r.month, r.year, r.weekday>>

\* Fact row f originates from log record l: it carries l's columns.
Origin(f, l) ==
    /\ f.start_time = StartOf(l)
    /\ f.sessionId = l.sessionId
    /\ f.level = l.level
    /\ f.location = l.location
    /\ f.user_agent = l.userAgent

\* The (song, artist) entries of the catalog: a song of the Song table with
\* an artist row of the Artist table of the same artist_id.
CatalogEntries ==
    {[song_id |-> sg.song_id, artist_id |-> sg.artist_id, title |-> sg.title,
      name |-> a.artist_name, year |-> sg.year] :
        <<sg, a>> \in {q \in Range(song_data) \X Range(song_data) :
                         q[1].artist_id = q[2].artist_id}}

Matches(l, c) == l.song = Some(c.title) /\ l.artist = Some(c.name)

\* A table without its songplay_id column, as a bag.
WithoutId(rows) ==
    SeqToBag([i \in 1..Len(rows) |->
                [x \in DOMAIN rows[i] \ {"songplay_id"} |-> rows[i][x]]])

(***************************************************************************)
(* C1: after process_log_data, songplays/ has exactly as many rows as the  *)
(* log has records of page "NextSong", whatever the catalog holds.         *)
(* Violated: an event whose title and artist name match several catalog    *)
(* rows (an artist with two song records has two Artist rows) yields a     *)
(* fact row per match.                                                     *)
(***************************************************************************)
C1_SongplayRowCount ==
    Wrote(SongplaysAt) => Len(Table(SongplaysAt)) = NumPlayEvents

(***************************************************************************)
(* C2: the User table has exactly one row per user U, and its level,       *)
(* gender and name are those of U's log record of maximum ts, also when    *)
(* two records of U share the maximum ts.                                  *)
(* Violated: every record of U at the maximum ts yields a row.             *)
(***************************************************************************)
C2_OneRowPerUser ==
    Wrote(UsersAt) =>
      \A l \in PlayEvents :
        LET users == Table(UsersAt)
            rows == {i \in 1..Len(users) : users[i].user_id = l.userId}
            IsMax(m) == /\ m.userId = l.userId
                        /\ \A o \in PlayEvents :
                             o.userId = l.userId => ~TsLess(m.ts, o.ts)
        IN  /\ Cardinality(rows) = 1
            /\ \A i \in rows : \A m \in PlayEvents :
                 IsMax(m) => /\ users[i].level = m.level
                             /\ users[i].gender = m.gender
                             /\ users[i].first_name = m.firstName
                             /\ users[i].last_name = m.lastName

(***************************************************************************)
(* C3 as stated: for every distinct (hour, day, week, month, year,         *)
(* weekday) tuple of the NextSong records, the Time table has exactly one  *)
(* row with that tuple, even when several ts values yield the tuple.       *)
(* Violated: the rows carry start_time, so two ts values of one hour are   *)
(* two rows of one tuple.                                                  *)
(***************************************************************************)
C3_OneRowPerTuple ==
    Wrote(TimeAt) =>
      LET t == Table(TimeAt)
      IN  \A l \in PlayEvents :
            Cardinality({i \in 1..Len(t) : TupleOfRow(t[i]) = TupleOf(l)}) = 1

(***************************************************************************)
(* C3 amended: for every distinct start_time of the NextSong records, the  *)
(* Time table has exactly one row with that start_time, which carries the  *)
(* calendar tuple of that start_time; it has no other row.  Several        *)
(* records of one ts are one row.                                          *)
(***************************************************************************)
C3_OneRowPerStartTime ==
    Wrote(TimeAt) =>
      LET t == Table(TimeAt)
      IN  /\ \A l \in PlayEvents :
               LET rows == {i \in 1..Len(t) : t[i].start_time = StartOf(l)}
               IN  /\ Cardinality(rows) = 1
                   /\ \A i \in rows : TupleOfRow(t[i]) = TupleOf(l)
          /\ \A i \in 1..Len(t) :
               \E l \in PlayEvents : t[i].start_time = StartOf(l)

\* Three NextSong records, two of one ts and the third of another ts of the
\* same calendar tuple, have been written to time/ as two rows.
C3_Witness ==
    /\ Wrote(TimeAt)
    /\ \E l, m \in PlayEvents : l # m /\ l.ts = m.ts
    /\ \E l, m \in PlayEvents : l.ts # m.ts /\ TupleOf(l) = TupleOf(m)
    /\ Len(Table(TimeAt)) = 2

(***************************************************************************)
(* C4: a fact row has a non-null song_id or artist_id only if its event's  *)
(* song and artist equal, as strings, the title and the artist name of a   *)
(* catalog (song, artist) entry carrying those ids; an event without such  *)
(* an entry yields a fact row whose song_id and artist_id are both null.   *)
(***************************************************************************)
C4_IdsOnlyOnExactMatch ==
    Wrote(SongplaysAt) =>
      LET facts == Range(Table(SongplaysAt))
          plays == PlayEvents
          entries == CatalogEntries
      IN  /\ \A f \in facts :
               (~IsNull(f.song_id) \/ ~IsNull(f.artist_id)) =>
                 \E l \in plays : \E c \in entries :
                   /\ Origin(f, l)
                   /\ Matches(l, c)
                   /\ f.song_id = Some(c.song_id)
                   /\ f.artist_id = Some(c.artist_id)
          /\ \A l \in plays :
               (\A c \in entries : ~Matches(l, c)) =>
                 /\ \E f \in facts : Origin(f, l)
                 /\ \A f \in facts :
                      Origin(f, l) => IsNull(f.song_id) /\ IsNull(f.artist_id)

\* songplays/ holds a row with ids and a row without, the latter of an event
\* whose title is in the catalog under an artist name of other case.
C4_Witness ==
    /\ Wrote(SongplaysAt)
    /\ \E f \in Range(Table(SongplaysAt)) : ~IsNull(f.song_id)
    /\ \E l \in PlayEvents :
         /\ \E c \in CatalogEntries : l.song = Some(c.title)
         /\ \A c \in CatalogEntries : ~Matches(l, c)
         /\ \E f \in Range(Table(SongplaysAt)) :
              Origin(f, l) /\ IsNull(f.song_id)

(***************************************************************************)
(* C5: when main has run twice on the same input, the Song, Artist, User   *)
(* and Time tables after the second run hold what they held after the      *)
(* first (nothing accumulates), and the Songplay table differs at most in  *)
(* its songplay_id values.                                                 *)
(***************************************************************************)
C5_RerunIdempotent ==
    (status = "done" /\ run >= 2) =>
      /\ \A p \in {songs_out, artists_out, users_out, time_out} :
           /\ Exists(prev, p) /\ Exists(store, p)
           /\ SeqToBag(Load(store, p)) = SeqToBag(Load(prev, p))
      /\ WithoutId(Load(store, songplays_out)) = WithoutId(Load(prev, songplays_out))

\* Two runs have completed, the tables are not empty, and the songplay_id
\* values of the second run are not those of the first.
C5_Witness ==
    /\ status = "done" /\ run = 2
    /\ Table(SongsAt) # <<>> /\ Table(UsersAt) # <<>>
    /\ SeqToBag(Load(store, songplays_out)) # SeqToBag(Load(prev, songplays_out))

(***************************************************************************)
(* C6: in every fact row, year and month are the calendar year and month   *)
(* of the event's ts, never the release year of the matched song, and      *)
(* user_id is the integer value of the event's userId; the event of        *)
(* ts = 1542241826796 and userId "10" yields year 2018, month 11,          *)
(* user_id 10.                                                             *)
(***************************************************************************)
C6_YearMonthFromTs ==
    Wrote(SongplaysAt) =>
      LET facts == Range(Table(SongplaysAt))
      IN
      \A l \in PlayEvents :
        /\ \E f \in facts : Origin(f, l)
        /\ \A f \in facts :
             Origin(f, l) =>
               /\ f.year = Year(StartOf(l), zone)
               /\ f.month = Month(StartOf(l), zone)
               /\ f.user_id = Some(DigitsValue(l.userId))
               /\ (l.ts = [sec |-> 1542241826, ms |-> 796]
                   /\ l.userId = <<"1", "0">>) =>
                    f.year = 2018 /\ f.month = 11 /\ f.user_id = Some(10)

\* The example event, matched to the catalog song of year 2009, is in
\* songplays/ with year 2018.
C6_Witness ==
    /\ Wrote(SongplaysAt)
    /\ \E f \in Range(Table(SongplaysAt)) :
         /\ f.song_id = Some("SOXXX")
         /\ f.year = 2018 /\ f.month = 11 /\ f.user_id = Some(10)
    /\ \E c \in CatalogEntries : c.song_id = "SOXXX" /\ c.year = 2009

(***************************************************************************)
(* C7: the Artist table has exactly one row for every artist_id of the     *)
(* song input, also when the artist has several song records.              *)
(* Violated: every song record yields an Artist row.                       *)
(***************************************************************************)
C7_OneRowPerArtist ==
    Wrote(ArtistsAt) =>
      \A sg \in Range(song_data) :
        Cardinality({i \in 1..Len(Table(ArtistsAt)) :
                       Table(ArtistsAt)[i].artist_id = sg.artist_id}) = 1

(***************************************************************************)
(* C8: in every run of main, when the enrichment read of the Song and      *)
(* Artist tables has happened, the songs/ and artists/ writes of the same  *)
(* run have completed, the read took the locations those writes wrote to,  *)
(* and what it read is the catalog of the current song input.              *)
(***************************************************************************)
C8_ReadAfterCatalogWrites ==
    At("write_songplays") =>
      /\ Qualify(songs_in) \in written /\ Qualify(artists_in) \in written
      /\ Qualify(songs_in) = Qualify(songs_out)
      /\ Qualify(artists_in) = Qualify(artists_out)
      /\ SeqToBag(songs_df) = SeqToBag(songs_table(song_data))
      /\ SeqToBag(artists_df) = SeqToBag(artists_table(song_data))

\* The enrichment read has happened in a run that found the tables of an
\* earlier run on other input at the output locations.
C8_Witness ==
    /\ At("write_songplays")
    /\ prev = StaleStore
    /\ songs_df # <<>> /\ songs_df # Load(prev, songs_in)

(***************************************************************************)
(* C9: when a step of the run fails, the run aborts: the locations written *)
(* before the failing step hold what this run wrote, and every location    *)
(* of a later step, songplays/ among them when the enrichment read fails,  *)
(* holds what it held before the run (no rollback, no cleanup, no later    *)
(* write).                                                                 *)
(***************************************************************************)
OutputOf(step) ==
    CASE step = "write_songs" -> {SongsAt}
      [] step = "write_artists" -> {ArtistsAt}
      [] step = "write_users" -> {UsersAt}
      [] step = "write_time" -> {TimeAt}
      [] step = "write_songplays" -> {SongplaysAt}
      [] OTHER -> {}

WrittenBefore(i) == UNION {OutputOf(main[k]) : k \in 1..(i - 1)}

ExpectedAt(q) ==
    LET plays == SelectSeq(log_data, LAMBDA l : l.page = "NextSong")
    IN  CASE q = SongsAt ->
               [i \in 1..Len(song_data) |-> SongRow(song_data[i])]
          [] q = ArtistsAt ->
               [i \in 1..Len(song_data) |-> ArtistRow(song_data[i])]
          [] q = UsersAt -> users_table(plays)
          [] q = TimeAt -> time_table(WithStartTime(plays), zone)

C10_OnlyNextSong ==
    LET plays == PlayEvents
        users == Range(Table(UsersAt))
    IN  /\ Wrote(UsersAt) =>
             /\ \A u \in users :
                  \E l \in plays :
                    /\ u.user_id = l.userId /\ u.first_name = l.firstName
                    /\ u.last_name = l.lastName /\ u.gender = l.gender
                    /\ u.level = l.level
             /\ \A l \in Range(log_data) :
                  (\A m \in plays : m.userId # l.userId) =>
                    \A u \in users : u.user_id # l.userId
        /\ Wrote(TimeAt) =>
             \A t \in Range(Table(TimeAt)) :
               \E l \in plays : t.start_time = StartOf(l)
        /\ Wrote(SongplaysAt) =>
             \A f \in Range(Table(SongplaysAt)) :
               \E l \in plays : Origin(f, l)

\* A run is over whose log held a NextSong record and, of the same user and
\* later, a record of another page with another name and level.
C10_Witness ==
    /\ status = "done"
    /\ Table(UsersAt) # <<>>
    /\ \E l \in PlayEvents : \E o \in Range(log_data) \ PlayEvents :
         /\ o.userId = l.userId /\ TsLess(l.ts, o.ts)
         /\ o.firstName # l.firstName /\ o.level # l.level

=============================================================================
